---- MODULE Spec2Model ----
(***************************************************************************)
(* Model of RVC/auto_tts.py: the sentence-aware splitter                   *)
(* (split_into_chunks), the per-chunk browser orchestration                *)
(* (generate_audio_chunks, wait_for_new_download), the assembler           *)
(* (concatenate_audio) and main with its best-effort cleanup.              *)
(*                                                                         *)
(* A Python str is a sequence of one-character strings.                    *)
(***************************************************************************)
EXTENDS Integers, Sequences, FiniteSets, TLC

VARIABLES
    pc,            \* position of main / generate_audio_chunks
    inputExists,   \* text_path.is_file()
    text,          \* raw_text
    chunk_size,    \* args.chunk_size
    chunks,        \* result of split_into_chunks (<<>> before the call)
    idx,           \* loop variable of generate_audio_chunks (1-based)
    driver,        \* the browser driver: "none", "acquired", "released"
    quits,         \* number of driver.quit() calls
    ui,            \* external UI: actual value of each observable
    uiText,        \* external UI: chunk whose text is in the textarea (0: none)
    uiGen,         \* external UI: chunk whose audio is being produced (0: none)
    uiBtn,         \* external UI: the download control is clickable
    prev,          \* prev_src_main, prev_src_hidden, prev_href_download
    seen,          \* what get_attr_safe returned in the last poll cycle
    polls,         \* unsuccessful polls of the wait in progress
    dirExists,     \* download_dir exists
    dir,           \* download_dir: file name -> [audio, mtime]
    before_files,  \* names listed before the download click
    inflight,      \* browser: audio being downloaded (0: none)
    now,           \* file-system clock (st_mtime of the next file)
    error,         \* the exception that ended the run (NoError: none)
    output,        \* segments of the exported file (<<>>: not written)
    attempts,      \* failed rmtree attempts of the cleanup loop
    failures,      \* history: every failure that happened, [stage, chunk]
    chunkState,    \* history: state of each chunk in the state machine
    assembled,     \* history: concatenate_audio was called
    usedAfterQuit  \* history: the driver was used after driver.quit()

(***************************************************************************)
(* Bounds of the model.                                                    *)
(***************************************************************************)
MaxLen == 6          \* longest input text of SplitSpec
MaxChunkSize == 3    \* largest chunk_size of SplitSpec

\* Characters of the input texts: a letter, a sentence terminator, whitespace.
Alphabet == {"a", ".", " "}

(***************************************************************************)
(* String helpers (str methods and the regular expression of line 89).     *)
(***************************************************************************)
\* \s of the regular expression and the characters str.strip() removes
IsSpace(c) == c \in {" ", "\t", "\n", "\r"}

\* [.!?] of the look-behind
IsSentenceEnd(c) == c \in {".", "!", "?"}

\* s[i:j] with 0-based Python bounds, clipped to the string
Slice(s, i, j) ==
    LET hi == IF j > Len(s) THEN Len(s) ELSE j
    IN  IF i >= hi THEN <<>> ELSE [k \in 1..(hi - i) |-> s[i + k]]

RECURSIVE LStrip(_)
LStrip(s) ==
    IF s = <<>> THEN <<>>
    ELSE IF IsSpace(Head(s)) THEN LStrip(Tail(s)) ELSE s

RECURSIVE RStrip(_)
RStrip(s) ==
    IF s = <<>> THEN <<>>
    ELSE IF IsSpace(s[Len(s)]) THEN RStrip(SubSeq(s, 1, Len(s) - 1)) ELSE s

\* str.strip()
strip(s) == RStrip(LStrip(s))

\* first index >= i of s that holds no whitespace (Len(s) + 1 when none)
RECURSIVE SkipSpaces(_, _)
SkipSpaces(s, i) ==
    IF i > Len(s) THEN i
    ELSE IF IsSpace(s[i]) THEN SkipSpaces(s, i + 1) ELSE i

\* sentence_end_re.split(text): cut at every run of whitespace that directly
\* follows one of . ! ? ; the run is dropped, the pieces are kept in order
\* (an empty last piece included).  i scans the text, cur is the open piece.
RECURSIVE SplitFrom(_, _, _)
SplitFrom(s, i, cur) ==
    IF i > Len(s) THEN <<cur>>
    ELSE IF IsSpace(s[i]) /\ i > 1 /\ IsSentenceEnd(s[i - 1])
         THEN <<cur>> \o SplitFrom(s, SkipSpaces(s, i), <<>>)
         ELSE SplitFrom(s, i + 1, Append(cur, s[i]))

sentence_end_split(s) == SplitFrom(s, 1, <<>>)

(***************************************************************************)
(* split_into_chunks (lines 86-117).                                       *)
(***************************************************************************)
\* parts = [sent[i : i + chunk_size] for i in range(0, len(sent), chunk_size)]
RECURSIVE PartsFrom(_, _, _)
PartsFrom(sent, i, n) ==
    IF i >= Len(sent) THEN <<>>
    ELSE <<Slice(sent, i, i + n)>> \o PartsFrom(sent, i + n, n)

Parts(sent, n) == PartsFrom(sent, 0, n)

\* Mutant of PackSentence: a full accumulator is replaced by the sentence
\* without being appended to the chunks.
PackSentenceDropsChunk(st, raw, n) ==
    LET sent == strip(raw)
        cur  == st.current_chunk
    IN  IF sent = <<>> THEN st
        ELSE IF Len(cur) + Len(sent) + 1 > n
             THEN IF cur # <<>>
                  THEN [chunks |-> st.chunks, current_chunk |-> sent]
                  ELSE LET parts == Parts(sent, n)
                       IN  [chunks |-> st.chunks
                                        \o SubSeq(parts, 1, Len(parts) - 1),
                            current_chunk |-> parts[Len(parts)]]
             ELSE [chunks |-> st.chunks,
                   current_chunk |->
                       cur \o (IF cur # <<>> THEN <<" ">> ELSE <<>>) \o sent]

\* One iteration of the loop of lines 94-109 on the state
\* st = [chunks, current_chunk].
PackSentence(st, raw, n) ==
    LET sent == strip(raw)
        cur  == st.current_chunk
    IN  IF sent = <<>> THEN st
        ELSE IF Len(cur) + Len(sent) + 1 > n
             THEN IF cur # <<>>
                  THEN [chunks |-> Append(st.chunks, strip(cur)),
                        current_chunk |-> sent]
                  ELSE LET parts == Parts(sent, n)
                       IN  [chunks |-> st.chunks
                                        \o SubSeq(parts, 1, Len(parts) - 1),
                            current_chunk |-> parts[Len(parts)]]
             ELSE [chunks |-> st.chunks,
                   current_chunk |->
                       cur \o (IF cur # <<>> THEN <<" ">> ELSE <<>>) \o sent]

RECURSIVE PackAll(_, _, _)
PackAll(st, sentences, n) ==
    IF sentences = <<>> THEN st
    ELSE PackAll(PackSentence(st, Head(sentences), n), Tail(sentences), n)

\* Mutant of Flush: the accumulator is not flushed after the loop.
FlushNothing(st, s) == st.chunks

\* lines 111-117: flush the accumulator, else fall back to the whole text
Flush(st, s) ==
    IF strip(st.current_chunk) # <<>>
    THEN Append(st.chunks, strip(st.current_chunk))
    ELSE IF strip(s) # <<>> THEN Append(st.chunks, strip(s))
    ELSE st.chunks

split_into_chunks(s, n) ==
    Flush(PackAll([chunks |-> <<>>, current_chunk |-> <<>>],
                  sentence_end_split(s), n), s)

(***************************************************************************)
(* File names (lines 154, 261, 273).                                       *)
(***************************************************************************)
\* args.format, default of line 289
fmt == <<"m", "p", "3">>

\* the name the browser gives a downloaded file (chosen by the web UI)
DownloadName == <<"a", "u", "d", "i", "o", ".">> \o fmt

PartPrefix == <<"p", "a", "r", "t", "_">>

CrdownloadSuffix == <<".", "c", "r", "d", "o", "w", "n", "l", "o", "a", "d">>

startswith(s, pre) == Len(s) >= Len(pre) /\ SubSeq(s, 1, Len(pre)) = pre

endswith(s, suf) ==
    Len(s) >= Len(suf) /\ SubSeq(s, Len(s) - Len(suf) + 1, Len(s)) = suf

DigitChar(d) == <<"0", "1", "2", "3", "4", "5", "6", "7", "8", "9">>[d + 1]

\* str(n) for n >= 0
RECURSIVE Decimal(_)
Decimal(n) ==
    IF n < 10 THEN <<DigitChar(n)>>
    ELSE Decimal(n \div 10) \o <<DigitChar(n % 10)>>

\* the 0<w>d format: zeros on the left up to width w, never cut
RECURSIVE ZeroPad(_, _)
ZeroPad(s, w) == IF Len(s) >= w THEN s ELSE ZeroPad(<<"0">> \o s, w)

\* Mutant of ordered_name: the index is left out of the name.
ordered_name_no_index(i) == PartPrefix \o <<".">> \o fmt

\* ordered_name = f"part_{idx:04d}.{fmt}"
ordered_name(i) == PartPrefix \o ZeroPad(Decimal(i), 4) \o <<".">> \o fmt

\* code point of a character of a file name
CharCode(c) ==
    CASE c = "." -> 46
      [] c = "0" -> 48 [] c = "1" -> 49 [] c = "2" -> 50 [] c = "3" -> 51
      [] c = "4" -> 52 [] c = "5" -> 53 [] c = "6" -> 54 [] c = "7" -> 55
      [] c = "8" -> 56 [] c = "9" -> 57
      [] c = "_" -> 95
      [] c = "a" -> 97 [] c = "c" -> 99 [] c = "d" -> 100 [] c = "i" -> 105
      [] c = "l" -> 108 [] c = "m" -> 109 [] c = "n" -> 110 [] c = "o" -> 111
      [] c = "p" -> 112 [] c = "r" -> 114 [] c = "t" -> 116 [] c = "u" -> 117
      [] c = "v" -> 118 [] c = "w" -> 119

\* a < b for Python strings (code point by code point, a prefix first)
RECURSIVE StrLess(_, _)
StrLess(a, b) ==
    IF b = <<>> THEN FALSE
    ELSE IF a = <<>> THEN TRUE
    ELSE IF Head(a) = Head(b) THEN StrLess(Tail(a), Tail(b))
    ELSE CharCode(Head(a)) < CharCode(Head(b))

\* sorted(names, key=lambda p: p.name)
RECURSIVE sorted(_)
sorted(names) ==
    IF names = {} THEN <<>>
    ELSE LET least == CHOOSE a \in names :
                          \A b \in names \ {a} : StrLess(a, b)
         IN  <<least>> \o sorted(names \ {least})

\* os.listdir(download_dir)
listdir == DOMAIN dir

\* parts_dir.glob("part_*")
glob_parts == {f \in listdir : startswith(f, PartPrefix)}

\* Path.rename: the file takes the new name and replaces a file of that name
rename(d, old, new) ==
    [f \in (DOMAIN d \ {old}) \cup {new} |-> IF f = new THEN d[old] ELSE d[f]]

\* the directory with one more file
write_file(d, name, audio, mtime) ==
    [f \in DOMAIN d \cup {name} |->
        IF f = name THEN [audio |-> audio, mtime |-> mtime] ELSE d[f]]

remove_file(d, name) == [f \in DOMAIN d \ {name} |-> d[f]]

EmptyDir == [f \in {} |-> 0]

(***************************************************************************)
(* More bounds.  The waits of lines 233, 240 and 153 are bounded by time;  *)
(* the model counts their unsuccessful polls instead.                      *)
(***************************************************************************)
MaxChunks == 2       \* most chunks of a run of Spec
OrchChunkSize == 2   \* chunk_size of the runs of Spec
GenPollLimit == 2    \* polls within the generation ceiling (line 233)
CtlPollLimit == 1    \* polls within the download-control ceiling (line 240)
DlPollLimit == 1     \* polls within max_wait (line 153)

\* range(3) of the cleanup loop
CleanupAttempts == 3

(***************************************************************************)
(* The external UI and its observables.                                    *)
(***************************************************************************)
Observables == {"main", "hidden", "href"}

\* get_attribute of an absent element (get_attr_safe returns None)
None == -1

\* an attribute that is present and empty, ""
Empty == 0

\* the audio of chunk k has locator k; a page used before the run shows
\* the audio of an earlier session
StaleUrl == MaxChunks + 1

\* Mutant of Truthy: a value that could not be sampled counts as a value.
TruthyOfNone(v) == v # Empty

\* truth value of a str-or-None (the "cur_main and ..." of lines 216-226)
Truthy(v) == v # None /\ v # Empty

\* get_attr_safe for each observable, the elements in `present` being on
\* the page at that moment
get_attr_safe(o, present) == IF o \in present THEN ui[o] ELSE None

Sample(present) == [o \in Observables |-> get_attr_safe(o, present)]

\* Mutant of new_audio_ready: only the main audio is looked at.
new_audio_ready_main_only(cur, prv) ==
    Truthy(cur["main"]) /\ cur["main"] # prv["main"]

\* new_audio_ready (lines 212-230) on the values of one poll cycle
new_audio_ready(cur, prv) ==
    IF Truthy(cur["main"]) /\ cur["main"] # prv["main"] THEN TRUE
    ELSE IF Truthy(cur["hidden"]) /\ cur["hidden"] # prv["hidden"] THEN TRUE
    ELSE IF Truthy(cur["href"]) /\ cur["href"] # prv["href"] THEN TRUE
    ELSE FALSE

\* Mutant of new_files: partial downloads are candidates too.
new_files_with_partial(known_files) == listdir \ known_files

\* Mutant of new_files: the files listed before the click are not set aside.
new_files_ignoring_known(known_files) ==
    {f \in listdir : ~endswith(f, CrdownloadSuffix)}

\* candidates - known_files of wait_for_new_download (lines 154-155)
new_files(known_files) ==
    {f \in listdir : ~endswith(f, CrdownloadSuffix)} \ known_files

\* max(new_files, key=st_mtime)
newest(files) == CHOOSE f \in files : \A g \in files : dir[g].mtime <= dir[f].mtime

(***************************************************************************)
(* Exceptions.                                                             *)
(***************************************************************************)
NoError == [type |-> "none", stage |-> "none", chunk |-> 0]

\* The exception each failure raises: its type, and the stage and the chunk
\* index its message names ("none", 0: the message names none).
ErrorOf(stage, i) ==
    CASE stage = "generation" ->
            [type |-> "RuntimeError", stage |-> "generation", chunk |-> i]
      [] stage = "download" ->
            [type |-> "RuntimeError", stage |-> "download", chunk |-> i]
      [] stage = "download_control" ->
            [type |-> "TimeoutException", stage |-> "none", chunk |-> 0]
      [] stage = "submit" ->
            [type |-> "TimeoutException", stage |-> "none", chunk |-> 0]
      [] stage = "generate_click" ->
            [type |-> "WebDriverException", stage |-> "none", chunk |-> 0]
      [] stage = "rename" ->
            [type |-> "OSError", stage |-> "none", chunk |-> 0]
      [] stage = "setup" ->
            [type |-> "WebDriverException", stage |-> "none", chunk |-> 0]
      [] stage = "assembly" ->
            [type |-> "FileNotFoundError", stage |-> "assembly", chunk |-> 0]
      [] stage = "input" ->
            [type |-> "SystemExit", stage |-> "input", chunk |-> 0]

\* the failures of the chunk loop the spec names
ChunkStages == {"generation", "download_control", "download", "rename"}

inputVars == <<inputExists, text, chunk_size>>
uiVars == <<ui, uiText, uiGen, uiBtn>>
fsVars == <<dirExists, dir, inflight, now>>
mainVars == <<output, attempts, assembled>>
detectVars == <<prev, seen>>

vars == <<pc, inputExists, text, chunk_size, chunks, idx, driver, quits, ui,
          uiText, uiGen, uiBtn, prev, seen, polls, dirExists, dir,
          before_files, inflight, now, error, output, attempts, failures,
          chunkState, assembled, usedAfterQuit>>

\* a call on the driver
UseDriver == usedAfterQuit' = (usedAfterQuit \/ driver # "acquired")

\* Mutant of AbortChunk: no finally clause, the driver is not released.
AbortChunkNoQuit(stage) ==
    /\ pc' = "aborted"
    /\ error' = ErrorOf(stage, idx)
    /\ failures' = failures \cup {[stage |-> stage, chunk |-> idx]}
    /\ chunkState' = [chunkState EXCEPT ![idx] = "Failed"]
    /\ UNCHANGED <<inputVars, chunks, idx, driver, quits, uiVars, detectVars,
                   polls, fsVars, before_files, mainVars, usedAfterQuit>>

\* Mutant of AbortChunk: skip-and-continue, the loop goes on with the next
\* chunk.
AbortChunkSkip(stage) ==
    /\ pc' = "loop"
    /\ idx' = idx + 1
    /\ polls' = 0
    /\ failures' = failures \cup {[stage |-> stage, chunk |-> idx]}
    /\ chunkState' = [chunkState EXCEPT ![idx] = "Failed"]
    /\ UNCHANGED <<inputVars, chunks, driver, quits, uiVars, detectVars,
                   fsVars, before_files, error, mainVars, usedAfterQuit>>

\* Mutant of AbortChunk: the exception is swallowed, the loop is left and
\* the directory returned.
AbortChunkReturn(stage) ==
    /\ pc' = "returned"
    /\ failures' = failures \cup {[stage |-> stage, chunk |-> idx]}
    /\ chunkState' = [chunkState EXCEPT ![idx] = "Failed"]
    /\ driver' = "released"
    /\ quits' = quits + 1
    /\ UNCHANGED <<inputVars, chunks, idx, uiVars, detectVars, polls, fsVars,
                   before_files, error, mainVars, usedAfterQuit>>

\* An exception raised inside the try of lines 172-264: the finally clause
\* quits the driver, then the exception leaves generate_audio_chunks and
\* main, which has no handler.
AbortChunk(stage) ==
    /\ pc' = "aborted"
    /\ error' = ErrorOf(stage, idx)
    /\ failures' = failures \cup {[stage |-> stage, chunk |-> idx]}
    /\ chunkState' = [chunkState EXCEPT ![idx] = "Failed"]
    /\ driver' = "released"
    /\ quits' = quits + 1
    /\ UNCHANGED <<inputVars, chunks, idx, uiVars, detectVars, polls, fsVars,
                   before_files, mainVars, usedAfterQuit>>

(***************************************************************************)
(* main, up to the call of generate_audio_chunks (lines 303-313).          *)
(***************************************************************************)
\* Mutant of InputMissing: the check of line 304 is not made, the run goes
\* on with the text it was given.
InputMissingIgnored ==
    /\ pc = "start"
    /\ ~inputExists
    /\ chunks' = split_into_chunks(text, chunk_size)
    /\ chunkState' = [k \in 1..Len(chunks') |-> "Idle"]
    /\ pc' = "split"
    /\ UNCHANGED <<inputVars, idx, driver, quits, uiVars, detectVars, polls,
                   fsVars, before_files, error, mainVars, failures,
                   usedAfterQuit>>

\* lines 304-305: parser.error exits the process
InputMissing ==
    /\ pc = "start"
    /\ ~inputExists
    /\ pc' = "input_error"
    /\ error' = ErrorOf("input", 0)
    /\ failures' = failures \cup {[stage |-> "input", chunk |-> 0]}
    /\ UNCHANGED <<inputVars, chunks, idx, driver, quits, uiVars, detectVars,
                   polls, fsVars, before_files, mainVars, chunkState,
                   usedAfterQuit>>

\* lines 308-309
ReadAndSplit ==
    /\ pc = "start"
    /\ inputExists
    /\ chunks' = split_into_chunks(text, chunk_size)
    /\ chunkState' = [k \in 1..Len(chunks') |-> "Idle"]
    /\ pc' = "split"
    /\ UNCHANGED <<inputVars, idx, driver, quits, uiVars, detectVars, polls,
                   fsVars, before_files, error, mainVars, failures,
                   usedAfterQuit>>

(***************************************************************************)
(* generate_audio_chunks (lines 163-268).                                  *)
(***************************************************************************)
\* lines 165-169: the directory is made and the driver acquired
SetupBrowser ==
    /\ pc = "split"
    /\ dirExists' = TRUE
    /\ driver' = "acquired"
    /\ idx' = 1
    /\ pc' = "loop"
    /\ UNCHANGED <<inputVars, chunks, quits, uiVars, detectVars, polls, dir,
                   inflight, now, before_files, error, mainVars, failures,
                   chunkState, usedAfterQuit>>

\* line 137 raises (no Chrome to attach to): no driver exists, the try block
\* is not entered
SetupBrowserFails ==
    /\ pc = "split"
    /\ dirExists' = TRUE
    /\ pc' = "aborted"
    /\ error' = ErrorOf("setup", 0)
    /\ failures' = failures \cup {[stage |-> "setup", chunk |-> 0]}
    /\ UNCHANGED <<inputVars, chunks, idx, driver, quits, uiVars, detectVars,
                   polls, dir, inflight, now, before_files, mainVars,
                   chunkState, usedAfterQuit>>

\* lines 175-187: the chunk goes into the textarea
Submit ==
    /\ pc = "loop"
    /\ idx <= Len(chunks)
    /\ UseDriver
    /\ uiText' = idx
    /\ chunkState' = [chunkState EXCEPT ![idx] = "Submitted"]
    /\ pc' = "submitted"
    /\ UNCHANGED <<inputVars, chunks, idx, driver, quits, ui, uiGen, uiBtn,
                   detectVars, polls, fsVars, before_files, error, mainVars,
                   failures>>

\* lines 175-181: the textarea is not there within 5 s
SubmitFails ==
    /\ pc = "loop"
    /\ idx <= Len(chunks)
    /\ AbortChunk("submit")

\* lines 197-207: the snapshot, then the click on Generate
SnapshotAndGenerate ==
    /\ pc = "submitted"
    /\ UseDriver
    /\ \E present \in SUBSET Observables : prev' = Sample(present)
    /\ uiGen' = uiText
    /\ polls' = 0
    /\ chunkState' = [chunkState EXCEPT ![idx] = "AwaitingGeneration"]
    /\ pc' = "await_gen"
    /\ UNCHANGED <<inputVars, chunks, idx, driver, quits, ui, uiText, uiBtn,
                   seen, fsVars, before_files, error, mainVars, failures>>

\* lines 202-205: the Generate button is absent or not clickable
GenerateClickFails ==
    /\ pc = "submitted"
    /\ AbortChunk("generate_click")

\* Mutant of PollGeneration: the wait has no ceiling, a cycle that is not
\* ready leaves the elapsed time where it was.
PollGenerationNoCeiling ==
    /\ pc = "await_gen"
    /\ polls < GenPollLimit
    /\ UseDriver
    /\ \E present \in SUBSET Observables : seen' = Sample(present)
    /\ IF new_audio_ready(seen', prev)
       THEN /\ pc' = "await_dlctl"
            /\ polls' = 0
            /\ chunkState' =
                   [chunkState EXCEPT ![idx] = "AwaitingDownloadControl"]
       ELSE /\ UNCHANGED <<polls, pc, chunkState>>
    /\ UNCHANGED <<inputVars, chunks, idx, driver, quits, uiVars, prev,
                   fsVars, before_files, error, mainVars, failures>>

\* one poll cycle of WebDriverWait(driver, 300).until(new_audio_ready)
PollGeneration ==
    /\ pc = "await_gen"
    /\ polls < GenPollLimit
    /\ UseDriver
    /\ \E present \in SUBSET Observables : seen' = Sample(present)
    /\ IF new_audio_ready(seen', prev)
       THEN /\ pc' = "await_dlctl"
            /\ polls' = 0
            /\ chunkState' =
                   [chunkState EXCEPT ![idx] = "AwaitingDownloadControl"]
       ELSE /\ polls' = polls + 1
            /\ UNCHANGED <<pc, chunkState>>
    /\ UNCHANGED <<inputVars, chunks, idx, driver, quits, uiVars, prev,
                   fsVars, before_files, error, mainVars, failures>>

\* lines 235-236: the ceiling elapsed
GenerationTimeout ==
    /\ pc = "await_gen"
    /\ polls = GenPollLimit
    /\ AbortChunk("generation")

\* one poll of line 240; when the control is clickable, lines 244-249: the
\* directory is listed and the control clicked, and the browser fetches what
\* the download anchor points to
PollDownloadControl ==
    /\ pc = "await_dlctl"
    /\ polls < CtlPollLimit
    /\ UseDriver
    /\ IF uiBtn
       THEN /\ before_files' = listdir
            /\ inflight' = IF Truthy(ui["href"]) THEN ui["href"] ELSE 0
            /\ polls' = 0
            /\ chunkState' = [chunkState EXCEPT ![idx] = "Downloading"]
            /\ pc' = "await_dl"
       ELSE /\ polls' = polls + 1
            /\ UNCHANGED <<before_files, inflight, chunkState, pc>>
    /\ UNCHANGED <<inputVars, chunks, idx, driver, quits, uiVars, detectVars,
                   dirExists, dir, now, error, mainVars, failures>>

\* line 240 raises TimeoutException
DownloadControlTimeout ==
    /\ pc = "await_dlctl"
    /\ polls = CtlPollLimit
    /\ AbortChunk("download_control")

\* one poll of wait_for_new_download (lines 153-159); when a new file is
\* there, lines 158 and 261-264: it is renamed and the loop goes on.  The
\* snapshot and the sampled values are locals of the iteration: the next
\* iteration assigns them before it reads them, so they are forgotten here.
PollDownload ==
    /\ pc = "await_dl"
    /\ polls < DlPollLimit
    /\ IF new_files(before_files) # {}
       THEN /\ dir' = rename(dir, newest(new_files(before_files)),
                             ordered_name(idx))
            /\ chunkState' = [chunkState EXCEPT ![idx] = "Renamed"]
            /\ idx' = idx + 1
            /\ polls' = 0
            /\ prev' = [o \in Observables |-> None]
            /\ seen' = [o \in Observables |-> None]
            /\ pc' = "loop"
       ELSE /\ polls' = polls + 1
            /\ UNCHANGED <<dir, chunkState, idx, pc, detectVars>>
    /\ UNCHANGED <<inputVars, chunks, driver, quits, uiVars, dirExists,
                   inflight, now, before_files, error, mainVars, failures,
                   usedAfterQuit>>

\* line 263 raises (the file is gone or locked)
RenameFails ==
    /\ pc = "await_dl"
    /\ polls < DlPollLimit
    /\ new_files(before_files) # {}
    /\ AbortChunk("rename")

\* lines 257-258: max_wait elapsed
DownloadTimeout ==
    /\ pc = "await_dl"
    /\ polls = DlPollLimit
    /\ AbortChunk("download")

\* the loop is over: the finally clause, then line 268
LoopExit ==
    /\ pc = "loop"
    /\ idx > Len(chunks)
    /\ driver' = "released"
    /\ quits' = quits + 1
    /\ pc' = "returned"
    /\ UNCHANGED <<inputVars, chunks, idx, uiVars, detectVars, polls, fsVars,
                   before_files, error, mainVars, failures, chunkState,
                   usedAfterQuit>>

(***************************************************************************)
(* The external UI and the browser's download, which act on their own.     *)
(***************************************************************************)
Waiting == pc \in {"await_gen", "await_dlctl", "await_dl"}

\* the generator shows the audio of the requested chunk in one observable
UiUpdate(o) ==
    /\ Waiting
    /\ uiGen # 0
    /\ ui[o] # uiGen
    /\ ui' = [ui EXCEPT ![o] = uiGen]
    /\ UNCHANGED <<pc, inputVars, chunks, idx, driver, quits, uiText, uiGen,
                   uiBtn, detectVars, polls, fsVars, before_files, error,
                   mainVars, failures, chunkState, usedAfterQuit>>

\* the download control becomes clickable
UiShowDownload ==
    /\ Waiting
    /\ ~uiBtn
    /\ uiBtn' = TRUE
    /\ UNCHANGED <<pc, inputVars, chunks, idx, driver, quits, ui, uiText,
                   uiGen, detectVars, polls, fsVars, before_files, error,
                   mainVars, failures, chunkState, usedAfterQuit>>

\* the browser starts writing the download as <name>.crdownload
BrowserStartsFile ==
    /\ pc = "await_dl"
    /\ inflight # 0
    /\ DownloadName \o CrdownloadSuffix \notin listdir
    /\ DownloadName \notin listdir
    /\ dir' = write_file(dir, DownloadName \o CrdownloadSuffix, inflight, now)
    /\ now' = now + 1
    /\ UNCHANGED <<pc, inputVars, chunks, idx, driver, quits, uiVars,
                   detectVars, polls, dirExists, inflight, before_files,
                   error, mainVars, failures, chunkState, usedAfterQuit>>

\* the download is complete: the browser gives the file its name
BrowserCompletesFile ==
    /\ pc = "await_dl"
    /\ DownloadName \o CrdownloadSuffix \in listdir
    /\ dir' = write_file(remove_file(dir, DownloadName \o CrdownloadSuffix),
                         DownloadName,
                         dir[DownloadName \o CrdownloadSuffix].audio, now)
    /\ now' = now + 1
    /\ inflight' = 0
    /\ UNCHANGED <<pc, inputVars, chunks, idx, driver, quits, uiVars,
                   detectVars, polls, dirExists, before_files, error,
                   mainVars, failures, chunkState, usedAfterQuit>>

(***************************************************************************)
(* concatenate_audio (lines 271-282) and the cleanup loop (lines 320-332). *)
(***************************************************************************)
Concatenate ==
    /\ pc = "returned"
    /\ assembled' = TRUE
    /\ LET files == sorted(glob_parts)
       IN  IF files = <<>>
           THEN /\ pc' = "aborted"
                /\ error' = ErrorOf("assembly", 0)
                /\ failures' = failures \cup {[stage |-> "assembly", chunk |-> 0]}
                /\ UNCHANGED <<output, attempts>>
           ELSE /\ output' = [i \in 1..Len(files) |-> dir[files[i]].audio]
                /\ attempts' = 0
                /\ pc' = "cleanup"
                /\ UNCHANGED <<error, failures>>
    /\ UNCHANGED <<inputVars, chunks, idx, driver, quits, uiVars, detectVars,
                   polls, fsVars, before_files, chunkState, usedAfterQuit>>

\* shutil.rmtree succeeds (line 322), break
CleanupSucceeds ==
    /\ pc = "cleanup"
    /\ attempts < CleanupAttempts
    /\ dirExists' = FALSE
    /\ dir' = EmptyDir
    /\ pc' = "done"
    /\ UNCHANGED <<inputVars, chunks, idx, driver, quits, uiVars, detectVars,
                   polls, inflight, now, before_files, error, mainVars,
                   failures, chunkState, usedAfterQuit>>

\* Mutant of CleanupFails: no except clause, the exception of rmtree leaves
\* main.
CleanupFailsRaises ==
    /\ pc = "cleanup"
    /\ attempts < CleanupAttempts
    /\ attempts' = attempts + 1
    /\ failures' = failures \cup {[stage |-> "cleanup", chunk |-> 0]}
    /\ error' = [type |-> "OSError", stage |-> "none", chunk |-> 0]
    /\ pc' = "aborted"
    /\ UNCHANGED <<inputVars, chunks, idx, driver, quits, uiVars, detectVars,
                   polls, fsVars, before_files, output, assembled,
                   chunkState, usedAfterQuit>>

\* shutil.rmtree raises (lines 327-332): warn, and try again unless this was
\* the last attempt
CleanupFails ==
    /\ pc = "cleanup"
    /\ attempts < CleanupAttempts
    /\ attempts' = attempts + 1
    /\ failures' = failures \cup {[stage |-> "cleanup", chunk |-> 0]}
    /\ pc' = IF attempts + 1 = CleanupAttempts THEN "done" ELSE "cleanup"
    /\ UNCHANGED <<inputVars, chunks, idx, driver, quits, uiVars, detectVars,
                   polls, fsVars, before_files, error, output, assembled,
                   chunkState, usedAfterQuit>>

(***************************************************************************)
(* Specifications.                                                         *)
(***************************************************************************)
RECURSIVE Sentences(_)
Sentences(n) == IF n = 0 THEN <<>> ELSE <<"a", ".", " ">> \o Sentences(n - 1)

\* texts of 0 .. MaxChunks sentences; each sentence makes one chunk
OrchTexts == {Sentences(n) : n \in 0..MaxChunks}

Texts == UNION {[1..n -> Alphabet] : n \in 0..MaxLen}

InitRest ==
    /\ pc = "start"
    /\ chunks = <<>>
    /\ idx = 0
    /\ driver = "none"
    /\ quits = 0
    /\ uiText = 0
    /\ uiGen = 0
    /\ prev = [o \in Observables |-> None]
    /\ seen = [o \in Observables |-> None]
    /\ polls = 0
    /\ dirExists = FALSE
    /\ dir = EmptyDir
    /\ before_files = {}
    /\ inflight = 0
    /\ now = 0
    /\ error = NoError
    /\ output = <<>>
    /\ attempts = 0
    /\ failures = {}
    /\ chunkState = <<>>
    /\ assembled = FALSE
    /\ usedAfterQuit = FALSE

\* a run of main: the page is fresh, or shows the audio of an earlier session
Init ==
    /\ inputExists \in BOOLEAN
    /\ text \in OrchTexts
    /\ chunk_size = OrchChunkSize
    /\ \E stale \in BOOLEAN :
          /\ ui = [o \in Observables |-> IF stale THEN StaleUrl ELSE Empty]
          /\ uiBtn = stale
    /\ InitRest

Next ==
    \/ InputMissing
    \/ ReadAndSplit
    \/ SetupBrowser
    \/ SetupBrowserFails
    \/ Submit
    \/ SubmitFails
    \/ SnapshotAndGenerate
    \/ GenerateClickFails
    \/ PollGeneration
    \/ GenerationTimeout
    \/ PollDownloadControl
    \/ DownloadControlTimeout
    \/ PollDownload
    \/ RenameFails
    \/ DownloadTimeout
    \/ LoopExit
    \/ \E o \in Observables : UiUpdate(o)
    \/ UiShowDownload
    \/ BrowserStartsFile
    \/ BrowserCompletesFile
    \/ Concatenate
    \/ CleanupSucceeds
    \/ CleanupFails

Spec == Init /\ [][Next]_vars

\* the steps of the program itself, as opposed to those of the page and of
\* the browser's download
ProgramStep ==
    \/ InputMissing
    \/ ReadAndSplit
    \/ SetupBrowser
    \/ SetupBrowserFails
    \/ Submit
    \/ SubmitFails
    \/ SnapshotAndGenerate
    \/ GenerateClickFails
    \/ PollGeneration
    \/ GenerationTimeout
    \/ PollDownloadControl
    \/ DownloadControlTimeout
    \/ PollDownload
    \/ RenameFails
    \/ DownloadTimeout
    \/ LoopExit
    \/ Concatenate
    \/ CleanupSucceeds
    \/ CleanupFails

\* the interpreter keeps running the program: a statement that can execute
\* does; nothing is assumed of the page, the browser or the file system
FairSpec == Spec /\ WF_vars(ProgramStep)

\* split_into_chunks on every text of at most MaxLen characters
SplitInit ==
    /\ inputExists = TRUE
    /\ text \in Texts
    /\ chunk_size \in 1..MaxChunkSize
    /\ ui = [o \in Observables |-> Empty]
    /\ uiBtn = FALSE
    /\ InitRest

SplitNext == ReadAndSplit

SplitSpec == SplitInit /\ [][SplitNext]_vars

(***************************************************************************)
(* Claims.                                                                 *)
(***************************************************************************)
LoopPcs == {"loop", "submitted", "await_gen", "await_dlctl", "await_dl"}

\* states of a chunk between Submitted and Renamed
InFlight == {"Submitted", "AwaitingGeneration", "AwaitingDownloadControl",
             "Downloading"}

\* C1: when generate_audio_chunks returns normally, every chunk has exactly
\* one renamed artifact: the directory holds one part_<index> file for each
\* chunk and no other part file, and every chunk went through Renamed.
C1_OneArtifactPerChunk ==
    pc = "returned" =>
        /\ error = NoError
        /\ \A k \in 1..Len(chunks) :
              /\ chunkState[k] = "Renamed"
              /\ ordered_name(k) \in listdir
        /\ Cardinality(glob_parts) = Len(chunks)

C1_Witness ==
    /\ pc = "returned"
    /\ Len(chunks) = 2
    /\ glob_parts = {ordered_name(1), ordered_name(2)}

\* C2: in a successful run the file renamed to part_k holds the audio the
\* generator produced for chunk k, and the exported audio has the segments
\* of chunks 1..N in this order, whatever the order in which the UI updates
\* its observables and its download control.
C2_PartHoldsChunkAudio ==
    /\ pc = "returned" =>
          \A k \in 1..Len(chunks) :
              ordered_name(k) \in listdir /\ dir[ordered_name(k)].audio = k
    /\ output # <<>> => output = [k \in 1..Len(chunks) |-> k]

\* C3: chunks are processed in strict index order without overlap: a chunk
\* k > 1 has left Idle (was submitted, had Generate clicked) only if chunk
\* k - 1 is Renamed and its part file is in place, and at most one chunk is
\* between Submitted and Renamed.
C3_StrictOrder ==
    /\ \A k \in DOMAIN chunkState :
          (k > 1 /\ (chunkState[k] # "Idle" \/ uiText >= k \/ uiGen >= k)) =>
              /\ chunkState[k - 1] = "Renamed"
              /\ dirExists => ordered_name(k - 1) \in listdir
    /\ Cardinality({k \in DOMAIN chunkState : chunkState[k] \in InFlight}) <= 1
    /\ \A k \in DOMAIN chunkState :
          chunkState[k] \in InFlight => k = idx /\ pc \in LoopPcs

C3_Witness ==
    /\ Len(chunks) = 2
    /\ chunkState[1] = "Renamed"
    /\ chunkState[2] = "AwaitingGeneration"
    /\ uiGen = 2

\* C4: once acquired, the driver is released exactly once on every exit
\* path of generate_audio_chunks (normal return or any exception of the
\* chunk loop), it is held only inside the loop, and it is never used after
\* its release.
C4_ReleasedOnce ==
    /\ quits <= 1
    /\ driver = "acquired" => quits = 0 /\ pc \in LoopPcs
    /\ (driver # "none" /\ pc \notin LoopPcs) =>
          driver = "released" /\ quits = 1
    /\ pc \in LoopPcs => driver = "acquired"
    /\ ~usedAfterQuit

C4_Witness ==
    /\ pc = "aborted"
    /\ [stage |-> "rename", chunk |-> 2] \in failures
    /\ driver = "released"
    /\ quits = 1

\* the chunks joined by single spaces
RECURSIVE JoinChunks(_)
JoinChunks(cs) ==
    IF cs = <<>> THEN <<>>
    ELSE IF Len(cs) = 1 THEN cs[1]
    ELSE cs[1] \o <<" ">> \o JoinChunks(Tail(cs))

\* a string without its whitespace
RECURSIVE NoSpaces(_)
NoSpaces(s) ==
    IF s = <<>> THEN <<>>
    ELSE IF IsSpace(Head(s)) THEN NoSpaces(Tail(s))
    ELSE <<Head(s)>> \o NoSpaces(Tail(s))

\* C5: every chunk split_into_chunks returns has at most chunk_size
\* characters, wherever a sentence longer than chunk_size occurs in the text.
C5_ChunkWithinBound ==
    pc = "split" => \A i \in 1..Len(chunks) : Len(chunks[i]) <= chunk_size

\* C6: round trip of the splitter: the chunks joined by single spaces equal
\* the input text once whitespace is removed from both (no other character
\* is lost, duplicated or reordered).
C6_RoundTrip ==
    pc = "split" => NoSpaces(JoinChunks(chunks)) = NoSpaces(text)

C6_Witness ==
    /\ pc = "split"
    /\ Len(chunks) >= 3
    /\ \E i \in 1..Len(text) : IsSpace(text[i])
    /\ \E i \in 1..Len(text) : IsSentenceEnd(text[i])

\* C7: no chunk split_into_chunks returns is empty or only whitespace,
\* the raw slices of a long sentence included.
C7_NoBlankChunk ==
    pc = "split" => \A i \in 1..Len(chunks) : strip(chunks[i]) # <<>>

\* C8, as claimed: a non-empty text gives a non-empty sequence of chunks.
C8_NonEmptyForNonEmptyText ==
    (pc = "split" /\ text # <<>>) => chunks # <<>>

\* what the loop of lines 94-109 leaves for lines 111-117
AfterLoop ==
    PackAll([chunks |-> <<>>, current_chunk |-> <<>>],
            sentence_end_split(text), chunk_size)

\* C8, amended: a text with a character that is not whitespace gives a
\* non-empty sequence of chunks whose last chunk is the flushed accumulator
\* (the whole-text fallback of lines 115-116 is never needed); an empty or
\* whitespace-only text gives no chunk.
C8_NonEmptyForNonBlankText ==
    pc = "split" =>
        /\ strip(text) # <<>> =>
              /\ chunks # <<>>
              /\ strip(AfterLoop.current_chunk) # <<>>
              /\ chunks[Len(chunks)] = strip(AfterLoop.current_chunk)
        /\ strip(text) = <<>> => chunks = <<>>

C8_Witness ==
    /\ pc = "split"
    /\ strip(text) # <<>>
    /\ \A i \in 1..Len(text) : ~IsSentenceEnd(text[i])
    /\ chunks = <<strip(text)>>

\* some observable is non-empty and differs from its snapshot
SignalChanged(cur, prv) ==
    \E o \in Observables : cur[o] # None /\ cur[o] # Empty /\ cur[o] # prv[o]

\* C9: the completion detector succeeds exactly at the first poll cycle in
\* which some observable is non-empty and differs from its pre-trigger
\* snapshot: after success the last cycle's values show such a change, while
\* polling goes on the last cycle's values show none; when the ceiling is
\* reached without one, only the timeout is left and the run ends with the
\* generation-timeout error of that chunk.
C9_DetectorFirstChange ==
    /\ pc \in {"await_dlctl", "await_dl"} => SignalChanged(seen, prev)
    /\ (pc = "await_gen" /\ polls > 0) => ~SignalChanged(seen, prev)
    /\ (pc = "await_gen" /\ polls = GenPollLimit) =>
          ENABLED GenerationTimeout /\ ~ENABLED PollGeneration
    /\ \A f \in failures :
          f.stage = "generation" =>
              /\ pc = "aborted"
              /\ f.chunk = idx
              /\ polls = GenPollLimit
              /\ ~SignalChanged(seen, prev)
              /\ error = [type |-> "RuntimeError", stage |-> "generation",
                          chunk |-> idx]

C9_Witness ==
    /\ pc = "await_dlctl"
    /\ polls = 0
    /\ idx = 2
    /\ seen["main"] = prev["main"]
    /\ seen["hidden"] = prev["hidden"]
    /\ seen["href"] = 2
    /\ prev["href"] = 1

C9_TimeoutWitness ==
    /\ pc = "aborted"
    /\ [stage |-> "generation", chunk |-> 2] \in failures

C10_CleanupWitness ==
    /\ pc = "done"
    /\ attempts = CleanupAttempts
    /\ dirExists

\* the three per-chunk waits that end by a timeout
TimeoutStages == {"generation", "download_control", "download"}

\* C11: when one of the three per-chunk waits (generation, download
\* control, download) times out at chunk k, the error that ends the run
\* names chunk k and the stage that timed out.
C11_TimeoutNamesChunkAndStage ==
    \A f \in failures :
        f.stage \in TimeoutStages =>
            /\ error.chunk = f.chunk
            /\ error.stage = f.stage

(***************************************************************************)
(* concatenate_audio on a directory of ordered artifacts.                  *)
(***************************************************************************)
MaxSmallIndex == 3   \* indices taken at each end of the zero-padded range

\* the first index that the 04d of line 261 writes with five digits
PadLimit == 10 ^ 4

\* chunk indices of the artifacts: the first ones, the last ones with four
\* digits and the first ones with five
AsmIndices ==
    (1..MaxSmallIndex)
        \cup {PadLimit - d : d \in 1..MaxSmallIndex}
        \cup {PadLimit + d - 1 : d \in 1..MaxSmallIndex}

\* the index an ordered artifact was named after
PartIndex(f) == CHOOSE i \in AsmIndices : ordered_name(i) = f

\* a directory that holds the artifacts of the chunks in S, part_<i> holding
\* the audio of chunk i
DirOfParts(S) ==
    [f \in {ordered_name(i) : i \in S} |->
        [audio |-> PartIndex(f), mtime |-> 0]]

\* generate_audio_chunks has returned a directory; the artifacts in it are
\* those of up to three of the indices (the chunk texts play no part in
\* concatenate_audio and are left out)
AsmInit ==
    /\ pc = "returned"
    /\ inputExists = TRUE
    /\ text = <<>>
    /\ chunk_size = OrchChunkSize
    /\ chunks = <<>>
    /\ idx = 0
    /\ driver = "released"
    /\ quits = 1
    /\ ui = [o \in Observables |-> Empty]
    /\ uiText = 0
    /\ uiGen = 0
    /\ uiBtn = FALSE
    /\ prev = [o \in Observables |-> None]
    /\ seen = [o \in Observables |-> None]
    /\ polls = 0
    /\ dirExists = TRUE
    /\ \E S \in SUBSET AsmIndices :
          /\ Cardinality(S) <= 3
          /\ dir = DirOfParts(S)
    /\ before_files = {}
    /\ inflight = 0
    /\ now = 0
    /\ error = NoError
    /\ output = <<>>
    /\ attempts = 0
    /\ failures = {}
    /\ chunkState = <<>>
    /\ assembled = FALSE
    /\ usedAfterQuit = FALSE

AsmNext ==
    \/ Concatenate
    \/ CleanupSucceeds
    \/ CleanupFails

AsmSpec == AsmInit /\ [][AsmNext]_vars

\* C12: for all chunk indices i < j the ordered name of i sorts strictly
\* before the ordered name of j in the string order concatenate_audio sorts
\* by, so the sorted names are in chunk index order.
C12_NamesSortInIndexOrder ==
    assembled =>
        \A f, g \in glob_parts :
            PartIndex(f) < PartIndex(g) => StrLess(f, g)

\* C14: concatenate_audio raises the "no parts" error and writes nothing
\* when the directory holds no ordered artifact; otherwise the exported
\* audio holds the artifacts in increasing index order, each exactly once.
C14_AssemblesInIndexOrder ==
    /\ (assembled /\ pc = "aborted") =>
          /\ glob_parts = {}
          /\ error = ErrorOf("assembly", 0)
          /\ output = <<>>
    /\ pc = "cleanup" =>
          /\ glob_parts # {}
          /\ Len(output) = Cardinality(glob_parts)
          /\ {output[a] : a \in 1..Len(output)} =
                 {dir[f].audio : f \in glob_parts}
          /\ \A a, b \in 1..Len(output) :
                a < b => output[a] < output[b]

\* C13: cleanup never fails the run.  It starts only once the output file
\* is written; at most CleanupAttempts removals are tried and none follows a
\* successful one; a failed removal raises no error; when all of them fail
\* the run still ends successfully, the output in place and the directory
\* left behind.
C13_CleanupNeverFailsRun ==
    /\ attempts <= CleanupAttempts
    /\ (attempts > 0) <=> (\E f \in failures : f.stage = "cleanup")
    /\ (\E f \in failures : f.stage = "cleanup") =>
          pc \in {"cleanup", "done"} /\ error = NoError
    /\ pc = "cleanup" =>
          /\ attempts < CleanupAttempts
          /\ dirExists
          /\ output # <<>>
          /\ error = NoError
    /\ pc = "done" =>
          /\ output # <<>>
          /\ error = NoError
          /\ dirExists <=> attempts = CleanupAttempts
          /\ ~ENABLED CleanupSucceeds
          /\ ~ENABLED CleanupFails

C13_Witness ==
    /\ pc = "done"
    /\ attempts = CleanupAttempts
    /\ dirExists
    /\ Len(output) = 2
    /\ error = NoError

\* the states in which main has ended
Terminal == {"done", "aborted", "input_error"}

\* C15: every run terminates.  Whatever the page, the browser and the file
\* system do, a run whose statements keep executing reaches the finished
\* state or an aborted one; no wait goes on forever.
C15_Terminates == <>(pc \in Terminal)

\* the waits of the first chunk ended by success, the download wait of the
\* second one by its timeout
C15_Witness ==
    /\ pc \in Terminal
    /\ Len(chunkState) = 2
    /\ chunkState[1] = "Renamed"
    /\ [stage |-> "download", chunk |-> 2] \in failures
    /\ polls = DlPollLimit

(***************************************************************************)
(* wait_for_new_download on every small download directory: the wait of    *)
(* the second chunk, with the first part in place and any of the other     *)
(* files there, listed before the click or not.                            *)
(***************************************************************************)
MaxMtime == 2

\* a file of the download directory that is not of this run's making
StrayName == <<"s", "t", "r", "a", "y", ".">> \o fmt

DlNames ==
    {DownloadName, StrayName, DownloadName \o CrdownloadSuffix, ordered_name(1)}

DlInit ==
    /\ pc = "await_dl"
    /\ inputExists = TRUE
    /\ text = Sentences(2)
    /\ chunk_size = OrchChunkSize
    /\ chunks = split_into_chunks(text, chunk_size)
    /\ idx = 2
    /\ driver = "acquired"
    /\ quits = 0
    /\ ui = [o \in Observables |-> 2]
    /\ uiText = 2
    /\ uiGen = 2
    /\ uiBtn = TRUE
    /\ prev = [o \in Observables |-> None]
    /\ seen = [o \in Observables |-> None]
    /\ polls = 0
    /\ dirExists = TRUE
    /\ \E S \in SUBSET DlNames :
          /\ ordered_name(1) \in S
          /\ \E m \in [S -> 0..MaxMtime] :
                dir = [f \in S |->
                         [audio |-> IF f = ordered_name(1) THEN 1 ELSE 2,
                          mtime |-> m[f]]]
    /\ before_files \in SUBSET DlNames
    /\ ordered_name(1) \in before_files
    /\ inflight \in {0, 2}
    /\ now = MaxMtime + 1
    /\ error = NoError
    /\ output = <<>>
    /\ attempts = 0
    /\ failures = {}
    /\ chunkState = <<"Renamed", "Downloading">>
    /\ assembled = FALSE
    /\ usedAfterQuit = FALSE

DlNext ==
    \/ PollDownload
    \/ RenameFails
    \/ DownloadTimeout
    \/ BrowserStartsFile
    \/ BrowserCompletesFile

DlSpec == DlInit /\ [][DlNext]_vars

\* the files a download wait may return: in the directory, not listed before
\* the click, not a partial download
Candidates ==
    {f \in DOMAIN dir : f \notin before_files /\ ~endswith(f, CrdownloadSuffix)}

\* C16: the download wait returns (and the orchestrator renames) only a file
\* of the directory that was not listed before the click and is no
\* .crdownload file, the most recently modified of these; it returns nothing
\* while there is none, and when max_wait elapses the chunk fails with the
\* download-timeout RuntimeError that names the chunk.
C16_ReturnsNewestNewFile ==
    [][pc = "await_dl" =>
         /\ pc' = "loop" =>
               \E f \in Candidates :
                  /\ \A g \in Candidates : dir[g].mtime <= dir[f].mtime
                  /\ dir' = rename(dir, f, ordered_name(idx))
         /\ (Candidates = {} /\ pc' # pc) =>
               /\ polls = DlPollLimit
               /\ pc' = "aborted"
               /\ error' = [type |-> "RuntimeError", stage |-> "download",
                            chunk |-> idx]
         /\ (polls = DlPollLimit /\ pc' # pc) =>
               /\ pc' = "aborted"
               /\ error' = [type |-> "RuntimeError", stage |-> "download",
                            chunk |-> idx]
      ]_vars

\* two files were candidates, a partial download lay beside them, and the
\* more recent one became part 2
C16_Witness ==
    /\ pc = "loop"
    /\ idx = 3
    /\ ordered_name(2) \in listdir
    /\ StrayName \in listdir \ before_files
    /\ DownloadName \notin listdir \cup before_files
    /\ DownloadName \o CrdownloadSuffix \in listdir \ before_files
    /\ dir[StrayName].mtime < dir[ordered_name(2)].mtime

\* C17: a sampling error never aborts the generation poll and is no
\* completion signal.  A poll cycle within the ceiling raises nothing; one
\* in which every observable fails to sample reports "not ready" and the
\* wait goes on; a cycle reports "ready" only on a value it did sample.
C17_SamplingErrorIsNoSignal ==
    [][(pc = "await_gen" /\ polls < GenPollLimit /\ <<pc, polls>>' # <<pc, polls>>) =>
         /\ error' = NoError
         /\ failures' = failures
         /\ driver' = driver
         /\ pc' \in {"await_gen", "await_dlctl"}
         /\ (\A o \in Observables : seen'[o] = None) =>
               pc' = "await_gen" /\ polls' = polls + 1
         /\ pc' = "await_dlctl" =>
               \E o \in Observables :
                  seen'[o] \notin {None, Empty} /\ seen'[o] # prev[o]
      ]_vars

\* the audio of the chunk is on the page and was in the snapshot's reach,
\* but the last poll cycle could sample nothing: the wait goes on
C17_Witness ==
    /\ pc = "await_gen"
    /\ polls >= 1
    /\ \A o \in Observables : seen[o] = None
    /\ \E o \in Observables : prev[o] # None
    /\ \E o \in Observables : ui[o] = idx
    /\ error = NoError

\* C18: the detector reports success only on a real state transition.  The
\* page changes an observable only by showing the audio of the current
\* request (UiUpdate), and no observable holds that audio before the click;
\* so an observable differs from its value before the click exactly when it
\* holds the audio of chunk idx.  Whenever the generation wait of chunk idx
\* ends by success, some observable holds it.
C18_SuccessOnlyOnTransition ==
    [][(pc = "await_gen" /\ pc' = "await_dlctl") =>
          \E o \in Observables : ui[o] = idx /\ ui'[o] = idx
      ]_vars

\* C19: the parts already renamed are left alone.  Until cleanup no step
\* removes, renames or rewrites a part_<index> file; the file a download
\* wait selects is never one of them; and the set of parts changes only when
\* a chunk completes, by the one file part_<idx> that was not there before.
C19_EarlierPartsUntouched ==
    [][pc # "cleanup" =>
         /\ \A f \in glob_parts : f \in glob_parts' /\ dir'[f] = dir[f]
         /\ (pc = "await_dl" /\ pc' = "loop") =>
               newest(new_files(before_files)) \notin glob_parts
         /\ glob_parts' # glob_parts =>
               /\ pc = "await_dl"
               /\ pc' = "loop"
               /\ ordered_name(idx) \notin glob_parts
               /\ glob_parts' = glob_parts \cup {ordered_name(idx)}
               /\ chunkState'[idx] = "Renamed"
               /\ Cardinality(glob_parts') = idx
      ]_vars

\* the second chunk completed with the first part listed before its click
C19_Witness ==
    /\ pc = "loop"
    /\ idx = 3
    /\ ordered_name(1) \in before_files
    /\ glob_parts = {ordered_name(1), ordered_name(2)}
    /\ listdir = glob_parts

\* C20: a missing input file ends the run before it starts.  The only step
\* such a run takes is the exit with the input error: the text is never
\* split, the download directory never made, the driver never acquired, the
\* page never touched and no output written.
C20_MissingInputStartsNothing ==
    ~inputExists =>
        /\ pc \in {"start", "input_error"}
        /\ pc = "start" => ENABLED InputMissing /\ ~ENABLED ReadAndSplit
        /\ pc = "input_error" =>
              /\ error = ErrorOf("input", 0)
              /\ failures = {[stage |-> "input", chunk |-> 0]}
              /\ ~ENABLED Next
        /\ chunks = <<>>
        /\ chunkState = <<>>
        /\ ~dirExists
        /\ listdir = {}
        /\ driver = "none"
        /\ quits = 0
        /\ ~usedAfterQuit
        /\ uiText = 0
        /\ uiGen = 0
        /\ output = <<>>
        /\ ~assembled

\* the run of a text of two sentences whose file is not there has ended
C20_Witness ==
    /\ pc = "input_error"
    /\ ~inputExists
    /\ text = Sentences(2)
    /\ error.type = "SystemExit"

====
